---- MODULE Spec2Model ----
(***************************************************************************)
(* A model of upb_struct.h: the run-time struct format of upb.  An         *)
(* instance is a byte buffer that starts with set_flags_bytes bytes of     *)
(* "set" bits and continues with the fields' values; every operation is    *)
(* offset arithmetic on that buffer, driven by a struct definition.        *)
(***************************************************************************)
EXTENDS Integers, Sequences, FiniteSets, TLC

VARIABLES
  d,       \* the struct definition in use (struct upb_struct_definition)
  s,       \* the memory at the instance pointer s: the bytes of the instance
  last,    \* the last operation called: [op, f, v], f a field or an index
  ret,     \* what the last call returned, as a set: {} for a void function
  pre,     \* the memory as it was before the last operation (before the
           \* writers started, under SpecConc)
  snap,    \* the memory before the upb_struct_set that the last operation
           \* was, or that the last upb_struct_unset undid; as a set
  nops,    \* number of operations called so far
  touched, \* the fields of d the caller works on
  shadow,  \* per field, the value last stored by a typed setter, as a set
  arr,     \* an array record (struct upb_array): [len, data]
  atype,   \* the element type the array accessors are used with
  prog,    \* per writer thread, the flag operation it runs
  pc,      \* per writer thread, its position in the read-modify-write
  tmp      \* per writer thread, the byte it has loaded

vars == <<d, s, last, ret, pre, snap, nops, touched, shadow, arr, atype, prog, pc, tmp>>

(***************************************************************************)
(* Bounds of the model.                                                    *)
(***************************************************************************)
MaxReq == 16     \* largest num_required_fields of a definition
MaxOpt == 1      \* largest number of non-required fields of a definition
MaxOps == 1      \* flag operations called on one instance under SpecReq
MaxTouched == 2  \* fields of the typed definition one caller works on
MaxArrLen == 3   \* largest len of an array record

(***************************************************************************)
(* C arithmetic on bytes.                                                  *)
(***************************************************************************)
RECURSIVE BitAnd(_, _)
\* a & b on non-negative integers
BitAnd(a, b) ==
  IF a = 0 \/ b = 0 THEN 0
  ELSE (a % 2) * (b % 2) + 2 * BitAnd(a \div 2, b \div 2)

RECURSIVE BitOr(_, _)
\* a | b on non-negative integers
BitOr(a, b) ==
  IF a = 0 THEN b
  ELSE IF b = 0 THEN a
  ELSE (IF a % 2 = 1 \/ b % 2 = 1 THEN 1 ELSE 0) + 2 * BitOr(a \div 2, b \div 2)

\* ~m of a uint8_t m, promoted to int (two's complement), as stored back
\* into a uint8_t: the low eight bits of -1 - m
BitNot8(m) == (-1 - m) % 256

(***************************************************************************)
(* Struct definitions.                                                     *)
(***************************************************************************)
\* Field i of a definition whose flags take sfb bytes: flag bit i % 8 of
\* byte i / 8, and one byte of value storage after the flag bytes.
upb_struct_field(i, sfb) ==
  [ byte_offset       |-> sfb + i,
    isset_byte_offset |-> i \div 8,
    isset_byte_mask   |-> 2 ^ (i % 8) ]

\* A definition with nreq required fields, which take the lowest flag bits,
\* followed by nopt non-required ones.
upb_struct_definition(nreq, nopt) ==
  LET nf  == nreq + nopt
      sfb == (nf + 7) \div 8
  IN [ size                |-> sfb + nf,
       num_fields          |-> nf,
       set_flags_bytes     |-> sfb,
       num_required_fields |-> nreq,
       fields              |-> [i \in 0 .. nf - 1 |-> upb_struct_field(i, sfb)] ]

FieldIds(def) == 0 .. def.num_fields - 1
RequiredIds(def) == 0 .. def.num_required_fields - 1

(***************************************************************************)
(* Typed values.  A bool is a BOOLEAN and an int32_t an integer; a value   *)
(* of any other type is written as its 16-bit limbs, lowest first (the     *)
(* integers of the model checker are 32 bits wide).  A pointer takes 8     *)
(* bytes and the host is little-endian.                                    *)
(***************************************************************************)
\* the accessor families, in the order upb_struct.h defines them
Types ==
  << "double", "float", "int32", "int64", "uint32", "uint64", "bool",
     "bytes", "string", "substruct", "array" >>

\* sizeof(ctype)
SizeOf(type) ==
  CASE type = "bool" -> 1
    [] type \in {"float", "int32", "uint32"} -> 4
    [] OTHER -> 8

\* the object representation of an int32_t: two's complement, 4 bytes
EncodeInt32(v) ==
  LET low31 == IF v < 0 THEN (v + 2147483647) + 1 ELSE v
      sign  == IF v < 0 THEN 128 ELSE 0
  IN << low31 % 256, (low31 \div 256) % 256, (low31 \div 65536) % 256,
        (low31 \div 16777216) + sign >>

DecodeInt32(b) ==
  LET low31 == b[1] + 256 * b[2] + 65536 * b[3] + 16777216 * (b[4] % 128)
  IN IF b[4] >= 128 THEN (low31 - 2147483647) - 1 ELSE low31

\* the object representation of a value given by its 16-bit limbs
EncodeLimbs(v) ==
  [k \in 1 .. 2 * Len(v) |->
     IF k % 2 = 1 THEN v[(k + 1) \div 2] % 256 ELSE v[k \div 2] \div 256]

DecodeLimbs(b) ==
  [j \in 1 .. Len(b) \div 2 |-> b[2 * j - 1] + 256 * b[2 * j]]

\* the bytes that  *(ctype*)p = val  stores
Encode(type, v) ==
  CASE type = "bool" -> << IF v THEN 1 ELSE 0 >>
    [] type = "int32" -> EncodeInt32(v)
    [] OTHER -> EncodeLimbs(v)

\* the value that  *(ctype*)p  loads from the bytes b
Decode(type, b) ==
  CASE type = "bool" -> b[1] # 0
    [] type = "int32" -> DecodeInt32(b)
    [] OTHER -> DecodeLimbs(b)

\* *p of a ctype pointer p into the memory mem, p given as an offset
Load(mem, p, type) ==
  Decode(type, [k \in 1 .. SizeOf(type) |-> mem[p + k - 1]])

\* the memory mem after  *p = v
Store(mem, p, type, v) ==
  [i \in DOMAIN mem |->
     IF i \in p .. p + SizeOf(type) - 1
       THEN Encode(type, v)[i - p + 1]
       ELSE mem[i]]

\* return (ctype*)(s + f->byte_offset);   as an offset into s
upb_struct_get_ptr(f) == f.byte_offset

\* return *upb_struct_get_<name>_ptr(s, f);
upb_struct_get_value(buf, f, type) ==
  Load(buf, upb_struct_get_ptr(f), type)

\* upb_struct_set_value storing through a pointer to a 4-byte type
upb_struct_set_value_low4(buf, f, type, v) ==
  [i \in DOMAIN buf |->
     IF i \in f.byte_offset .. f.byte_offset + SizeOf(type) - 1
          /\ i - f.byte_offset < 4
       THEN Encode(type, v)[i - f.byte_offset + 1]
       ELSE buf[i]]

\* *upb_struct_get_<name>_ptr(s, f) = val;
upb_struct_set_value(buf, f, type, v) ==
  Store(buf, upb_struct_get_ptr(f), type, v)

\* upb_array_get_ptr without the cast: a->data + n, a byte offset
upb_array_get_ptr_uncast(n, type) == n

\* return ((ctype*)a->data) + n;   as an offset into a->data
upb_array_get_ptr(n, type) == n * SizeOf(type)

\* return *upb_array_get_<name>_ptr(a, n);
upb_array_get_value(a, n, type) ==
  Load(a.data, upb_array_get_ptr(n, type), type)

\* *upb_array_get_<name>_ptr(a, n) = val;
upb_array_set_value(a, n, type, v) ==
  [a EXCEPT !.data = Store(a.data, upb_array_get_ptr(n, type), type, v)]

(***************************************************************************)
(* The "set" flags.                                                        *)
(***************************************************************************)
\* s[f->isset_byte_offset] |= f->isset_byte_mask;
upb_struct_set(buf, f) ==
  [buf EXCEPT ![f.isset_byte_offset] = BitOr(@, f.isset_byte_mask)]

\* upb_struct_unset without the complement: s[...] &= f->isset_byte_mask;
upb_struct_unset_keeps_mask(buf, f) ==
  [buf EXCEPT ![f.isset_byte_offset] = BitAnd(@, f.isset_byte_mask)]

\* s[f->isset_byte_offset] &= ~f->isset_byte_mask;
upb_struct_unset(buf, f) ==
  [buf EXCEPT ![f.isset_byte_offset] = BitAnd(@, BitNot8(f.isset_byte_mask))]

\* return s[f->isset_byte_offset] & f->isset_byte_mask;   (int to bool)
upb_struct_is_set(buf, f) ==
  BitAnd(buf[f.isset_byte_offset], f.isset_byte_mask) # 0

RECURSIVE RequiredLoopSkipsWhole(_, _, _)
\* RequiredLoop with the comparison of the whole bytes left out
RequiredLoopSkipsWhole(buf, num_fields, i) ==
  IF num_fields > 8
    THEN RequiredLoopSkipsWhole(buf, num_fields - 8, i + 1)
    ELSE IF buf[i] # (2 ^ num_fields) - 1 THEN FALSE ELSE TRUE

RECURSIVE RequiredLoopWrongMask(_, _, _)
\* RequiredLoop with the final mask taken as 1 << num_fields
RequiredLoopWrongMask(buf, num_fields, i) ==
  IF num_fields > 8
    THEN IF buf[i] # 255 THEN FALSE
         ELSE RequiredLoopWrongMask(buf, num_fields - 8, i + 1)
    ELSE IF buf[i] # 2 ^ num_fields THEN FALSE ELSE TRUE

RECURSIVE RequiredLoop(_, _, _)
\* the while loop and the final comparison of
\* upb_struct_all_required_fields_set, from the state (num_fields, i)
RequiredLoop(buf, num_fields, i) ==
  IF num_fields > 8
    THEN IF buf[i] # 255 THEN FALSE
         ELSE RequiredLoop(buf, num_fields - 8, i + 1)
    ELSE IF buf[i] # (2 ^ num_fields) - 1 THEN FALSE ELSE TRUE

upb_struct_all_required_fields_set(buf, def) ==
  RequiredLoop(buf, def.num_required_fields, 0)

\* upb_struct_clear zeroing one byte less: memset(s, 0, set_flags_bytes - 1);
upb_struct_clear_short(buf, def) ==
  [i \in DOMAIN buf |-> IF i < def.set_flags_bytes - 1 THEN 0 ELSE buf[i]]

RECURSIVE RequiredLoopReads(_, _, _)
\* the indices i of the s[i] that RequiredLoop evaluates from the state
\* (num_fields, i): one per iteration up to the first mismatch, and the
\* one of the final comparison when the loop runs to its end
RequiredLoopReads(buf, num_fields, i) ==
  IF num_fields > 8
    THEN {i} \cup (IF buf[i] # 255 THEN {}
                   ELSE RequiredLoopReads(buf, num_fields - 8, i + 1))
    ELSE {i}

\* the indices of s that upb_struct_all_required_fields_set(s, d) reads
upb_struct_all_required_fields_set_reads(buf, def) ==
  RequiredLoopReads(buf, def.num_required_fields, 0)

\* memset(s, 0, d->set_flags_bytes);
upb_struct_clear(buf, def) ==
  [i \in DOMAIN buf |-> IF i < def.set_flags_bytes THEN 0 ELSE buf[i]]

(***************************************************************************)
(* The required-field check, on definitions of every required count.       *)
(***************************************************************************)
NoArr == [len |-> 0, data |-> <<>>]
NoOp == [op |-> "init", f |-> -1, v |-> {}]

\* The byte whose bit b is set iff flag number 8 * j + b is in bits.
FlagByte(bits, j) ==
  LET B(b) == IF 8 * j + b \in bits THEN 2 ^ b ELSE 0
  IN B(0) + B(1) + B(2) + B(3) + B(4) + B(5) + B(6) + B(7)

\* The memory of an instance whose set flags are exactly bits and whose
\* value bytes hold fill.  A definition without fields has size 0: s[0]
\* is then the byte that follows the (empty) instance, and holds fill.
Instance(def, bits, fill) ==
  [i \in 0 .. (IF def.size = 0 THEN 0 ELSE def.size - 1) |->
     IF i < def.set_flags_bytes THEN FlagByte(bits, i) ELSE fill]

\* The buffers an instance starts from: a cleared instance in which the
\* first k required fields have been set, and either none or all of the
\* non-required fields.
RequiredBuffers(def) ==
  { Instance(def,
             (0 .. k - 1) \cup (IF g THEN def.num_required_fields ..
                                          def.num_fields - 1
                                     ELSE {}),
             IF g /\ def.size = 0 THEN 255 ELSE 0) :
      k \in 0 .. def.num_required_fields, g \in BOOLEAN }

InitOthers ==
  /\ last = NoOp
  /\ ret = {}
  /\ pre = s
  /\ snap = {}
  /\ nops = 0
  /\ touched = {}
  /\ shadow = <<>>
  /\ arr = NoArr
  /\ atype = "none"
  /\ prog = <<>>
  /\ pc = <<>>
  /\ tmp = <<>>

InitReq ==
  /\ d \in { upb_struct_definition(nreq, nopt) :
               nreq \in 0 .. MaxReq, nopt \in 0 .. MaxOpt }
  /\ s \in RequiredBuffers(d)
  /\ InitOthers

Others == <<d, touched, shadow, arr, atype, prog, pc, tmp>>

ReqSetFlag(i) ==
  /\ nops < MaxOps
  /\ s' = upb_struct_set(s, d.fields[i])
  /\ last' = [op |-> "set", f |-> i, v |-> {}]
  /\ ret' = {}
  /\ pre' = s
  /\ snap' = {s}
  /\ nops' = nops + 1
  /\ UNCHANGED Others

ReqUnsetFlag(i) ==
  /\ nops < MaxOps
  /\ s' = upb_struct_unset(s, d.fields[i])
  /\ last' = [op |-> "unset", f |-> i, v |-> {}]
  /\ ret' = {}
  /\ pre' = s
  /\ snap' = IF last.op = "set" /\ last.f = i THEN snap ELSE {}
  /\ nops' = nops + 1
  /\ UNCHANGED Others

AllRequiredFieldsSet ==
  /\ ret' = {upb_struct_all_required_fields_set(s, d)}
  /\ last' = [op |-> "all_required", f |-> -1, v |-> {}]
  /\ pre' = s
  /\ snap' = {}
  /\ UNCHANGED <<s, nops, Others>>

NextReq ==
  \/ \E i \in FieldIds(d) : ReqSetFlag(i)
  \/ \E i \in FieldIds(d) : ReqUnsetFlag(i)
  \/ AllRequiredFieldsSet

SpecReq == InitReq /\ [][NextReq]_vars

(***************************************************************************)
(* One instance of a definition with a field of every accessor family,     *)
(* and a caller that works on one block of MaxTouched consecutive fields.  *)
(***************************************************************************)
TypeOf(i) == Types[i + 1]

RECURSIVE TypedOffset(_)
\* byte_offset of field i: the fields follow the two flag bytes in order,
\* each aligned to its size as in the C struct the upb compiler emits
TypedOffset(i) ==
  LET end == IF i = 0 THEN 2 ELSE TypedOffset(i - 1) + SizeOf(TypeOf(i - 1))
      sz  == SizeOf(TypeOf(i))
  IN ((end + sz - 1) \div sz) * sz

TypedDefinition ==
  LET nf == Len(Types)
  IN [ size                |-> TypedOffset(nf - 1) + SizeOf(TypeOf(nf - 1)),
       num_fields          |-> nf,
       set_flags_bytes     |-> 2,
       num_required_fields |-> 0,
       fields              |->
         [i \in 0 .. nf - 1 |->
            [ byte_offset       |-> TypedOffset(i),
              isset_byte_offset |-> i \div 8,
              isset_byte_mask   |-> 2 ^ (i % 8) ]] ]

\* the values the typed setters are called with
Values(type) ==
  CASE type = "bool" -> BOOLEAN
    [] type = "int32" -> {-5, 2147483647}
    [] type \in {"float", "uint32"} -> {<<1, 0>>, <<65535, 65534>>}
    [] OTHER -> {<<1, 0, 0, 0>>, <<513, 1027, 1541, 65535>>}

\* The instance starts zeroed, or never initialised (every byte 0xFF).
Init ==
  /\ d = TypedDefinition
  /\ \E w \in {x \in FieldIds(d) : x % MaxTouched = 0} :
       touched = {(w + k) % d.num_fields : k \in 0 .. MaxTouched - 1}
  /\ s \in {Instance(d, {}, 0), Instance(d, 0 .. 15, 255)}
  /\ last = NoOp
  /\ ret = {}
  /\ pre = s
  /\ snap = {}
  /\ nops = 0
  /\ shadow = [i \in FieldIds(d) |-> {}]
  /\ arr = NoArr
  /\ atype = "none"
  /\ prog = <<>>
  /\ pc = <<>>
  /\ tmp = <<>>

Rest == <<d, nops, touched, arr, atype, prog, pc, tmp>>

SetValue(i, v) ==
  /\ s' = upb_struct_set_value(s, d.fields[i], TypeOf(i), v)
  /\ shadow' = [shadow EXCEPT ![i] = {v}]
  /\ last' = [op |-> "set_value", f |-> i, v |-> {v}]
  /\ ret' = {}
  /\ pre' = s
  /\ snap' = {}
  /\ UNCHANGED Rest

GetValue(i) ==
  /\ ret' = {upb_struct_get_value(s, d.fields[i], TypeOf(i))}
  /\ last' = [op |-> "get_value", f |-> i, v |-> {}]
  /\ pre' = s
  /\ snap' = {}
  /\ UNCHANGED <<s, shadow, Rest>>

SetFlag(i) ==
  /\ s' = upb_struct_set(s, d.fields[i])
  /\ last' = [op |-> "set", f |-> i, v |-> {}]
  /\ ret' = {}
  /\ pre' = s
  /\ snap' = {s}
  /\ UNCHANGED <<shadow, Rest>>

UnsetFlag(i) ==
  /\ s' = upb_struct_unset(s, d.fields[i])
  /\ last' = [op |-> "unset", f |-> i, v |-> {}]
  /\ ret' = {}
  /\ pre' = s
  /\ snap' = IF last.op = "set" /\ last.f = i THEN snap ELSE {}
  /\ UNCHANGED <<shadow, Rest>>

IsSet(i) ==
  /\ ret' = {upb_struct_is_set(s, d.fields[i])}
  /\ last' = [op |-> "is_set", f |-> i, v |-> {}]
  /\ pre' = s
  /\ snap' = {}
  /\ UNCHANGED <<s, shadow, Rest>>

Clear ==
  /\ s' = upb_struct_clear(s, d)
  /\ last' = [op |-> "clear", f |-> -1, v |-> {}]
  /\ ret' = {}
  /\ pre' = s
  /\ snap' = {}
  /\ UNCHANGED <<shadow, Rest>>

Next ==
  \/ \E i \in touched : \E v \in Values(TypeOf(i)) : SetValue(i, v)
  \/ \E i \in touched : GetValue(i)
  \/ \E i \in touched : SetFlag(i)
  \/ \E i \in touched : UnsetFlag(i)
  \/ \E i \in touched : IsSet(i)
  \/ Clear

Spec == Init /\ [][Next]_vars

(***************************************************************************)
(* One array record and the array accessors of one element type.           *)
(***************************************************************************)
\* the accessor families that have array accessors (all but "array")
ArrayTypes == {Types[k] : k \in 1 .. Len(Types) - 1}

\* struct upb_array: len elements, data the storage they live in
upb_array(type, len, fill) ==
  [len |-> len, data |-> [i \in 0 .. len * SizeOf(type) - 1 |-> fill]]

InitArr ==
  /\ atype \in ArrayTypes
  /\ \E len \in 1 .. MaxArrLen, fill \in {0, 255} :
       arr = upb_array(atype, len, fill)
  /\ d = upb_struct_definition(0, 0)
  /\ s = <<>>
  /\ last = NoOp
  /\ ret = {}
  /\ pre = arr.data
  /\ snap = {}
  /\ nops = 0
  /\ touched = {}
  /\ shadow = <<>>
  /\ prog = <<>>
  /\ pc = <<>>
  /\ tmp = <<>>

ArrRest == <<d, s, snap, nops, touched, shadow, atype, prog, pc, tmp>>

ArraySet(n, v) ==
  /\ arr' = upb_array_set_value(arr, n, atype, v)
  /\ last' = [op |-> "array_set", f |-> n, v |-> {v}]
  /\ ret' = {}
  /\ pre' = arr.data
  /\ UNCHANGED ArrRest

ArrayGet(n) ==
  /\ ret' = {upb_array_get_value(arr, n, atype)}
  /\ last' = [op |-> "array_get", f |-> n, v |-> {}]
  /\ pre' = arr.data
  /\ UNCHANGED <<arr, ArrRest>>

NextArr ==
  \/ \E n \in 0 .. arr.len - 1 : \E v \in Values(atype) : ArraySet(n, v)
  \/ \E n \in 0 .. arr.len - 1 : ArrayGet(n)

SpecArr == InitArr /\ [][NextArr]_vars

(***************************************************************************)
(* Two threads, each calling upb_struct_set or upb_struct_unset on one     *)
(* instance.  s[...] |= mask and s[...] &= ~mask are a load of the byte    *)
(* followed by a store of the changed byte, with nothing that orders the   *)
(* steps of the two threads.                                               *)
(***************************************************************************)
Writers == {1, 2}

\* RmwLoad reading the aligned 4-byte word that holds the flag byte
RmwLoadWord(buf, f) ==
  [o \in {x \in DOMAIN buf : x \div 4 = f.isset_byte_offset \div 4} |-> buf[o]]

\* the part of the memory that the load of s[f->isset_byte_offset] reads:
\* that one byte
RmwLoad(buf, f) ==
  [o \in {f.isset_byte_offset} |-> buf[o]]

\* the memory after the store that ends the read-modify-write: the loaded
\* part, with f's mask or-ed in or and-ed out, is written back
RmwStore(buf, f, op, loaded) ==
  LET o     == f.isset_byte_offset
      fresh == IF op = "set"
                 THEN BitOr(loaded[o], f.isset_byte_mask)
                 ELSE BitAnd(loaded[o], BitNot8(f.isset_byte_mask))
  IN [i \in DOMAIN buf |->
        IF i = o THEN fresh
        ELSE IF i \in DOMAIN loaded THEN loaded[i]
        ELSE buf[i]]

InitConc ==
  /\ d = upb_struct_definition(MaxReq, MaxOpt)
  /\ s \in {Instance(d, {}, 0), Instance(d, FieldIds(d), 0)}
  /\ prog \in { p \in [Writers -> [op : {"set", "unset"}, f : FieldIds(d)]] :
                  p[1].f # p[2].f }
  /\ pc = [w \in Writers |-> "load"]
  /\ tmp = [w \in Writers |-> <<>>]
  /\ pre = s
  /\ last = NoOp
  /\ ret = {}
  /\ snap = {}
  /\ nops = 0
  /\ touched = {}
  /\ shadow = <<>>
  /\ arr = NoArr
  /\ atype = "none"

ConcRest == <<d, prog, pre, last, ret, snap, nops, touched, shadow, arr, atype>>

WriterLoad(w) ==
  /\ pc[w] = "load"
  /\ tmp' = [tmp EXCEPT ![w] = RmwLoad(s, d.fields[prog[w].f])]
  /\ pc' = [pc EXCEPT ![w] = "store"]
  /\ UNCHANGED <<s, ConcRest>>

WriterStore(w) ==
  /\ pc[w] = "store"
  /\ s' = RmwStore(s, d.fields[prog[w].f], prog[w].op, tmp[w])
  /\ pc' = [pc EXCEPT ![w] = "done"]
  /\ UNCHANGED <<tmp, ConcRest>>

NextConc ==
  \/ \E w \in Writers : WriterLoad(w)
  \/ \E w \in Writers : WriterStore(w)

SpecConc == InitConc /\ [][NextConc]_vars

(***************************************************************************)
(* Claims about the required-field check (under SpecReq).                  *)
(***************************************************************************)
AllRequired(buf) == upb_struct_all_required_fields_set(buf, d)
FlagOf(buf, i) == upb_struct_is_set(buf, d.fields[i])

\* C1: upb_struct_all_required_fields_set returns true if and only if the
\* set bit of every required field is 1, whatever the buffer holds (stated
\* here for the definitions that have at least one required field).
C1_TrueIffEveryRequiredBit ==
  d.num_required_fields > 0 =>
    (AllRequired(s) <=> \A i \in RequiredIds(d) : FlagOf(s, i))

\* C2: when the set bit of some required field is 0 the check returns
\* false, whatever the other bits are; and unsetting a required field in a
\* buffer for which the check returned true makes it return false.
C2_MissingRequiredGivesFalse ==
  /\ (\E i \in RequiredIds(d) : ~FlagOf(s, i)) => ~AllRequired(s)
  /\ (last.op = "unset" /\ last.f \in RequiredIds(d) /\ AllRequired(pre))
       => ~AllRequired(s)

\* A required field of the first flag byte of a definition with 16 required
\* fields was unset in a buffer that passed the check.
C2_Witness ==
  /\ d.num_required_fields = 16
  /\ last.op = "unset" /\ last.f \in 0 .. 7
  /\ AllRequired(pre) /\ ~AllRequired(s)

\* C3: with num_required_fields = 0 the check returns true for any buffer
\* contents (stated here for the definitions that have a flag byte, so that
\* the byte the check reads is a byte of the instance).
C3_ZeroRequiredAlwaysTrue ==
  (d.num_required_fields = 0 /\ d.set_flags_bytes > 0) => AllRequired(s)

\* C4: setting or unsetting the flag of a non-required field never changes
\* the result of the check (stated here for the definitions that have at
\* least one required field).
C4_NonRequiredFlipKeepsResult ==
  (/\ d.num_required_fields > 0
   /\ last.op \in {"set", "unset"} /\ last.f \notin RequiredIds(d))
    => (AllRequired(s) <=> AllRequired(pre))

\* C8: with more than 8 required fields the check returns true when every
\* whole required flag byte is 0xFF and the final one equals the mask of the
\* remaining low-order bits, and false when one of the remaining bits is
\* missing (10 required fields: FF 03 gives true, FF 01 gives false).
C8_WholeBytesThenMask ==
  d.num_required_fields > 8 =>
    LET n   == d.num_required_fields
        k   == (n - 1) \div 8
        rem == n - 8 * k
    IN /\ ((\A i \in 0 .. k - 1 : s[i] = 255) /\ s[k] = (2 ^ rem) - 1)
            => AllRequired(s)
       /\ (\E b \in 0 .. rem - 1 : BitAnd(s[k], 2 ^ b) = 0)
            => ~AllRequired(s)

\* 10 required fields: field 9 was set in the buffer FF 01, for which the
\* check returns false, and gave FF 03, for which it returns true.
C8_Witness ==
  /\ d.num_required_fields = 10
  /\ last.op = "set" /\ last.f = 9
  /\ pre[0] = 255 /\ pre[1] = 1 /\ ~AllRequired(pre)
  /\ s[0] = 255 /\ s[1] = 3 /\ AllRequired(s)

(***************************************************************************)
(* Claims about the accessors and the flags of one instance (under Spec).  *)
(***************************************************************************)
\* C5: after set(buf, f, v), get(buf, f) returns v, for every accessor
\* family, and still does after later sets of other fields and after any
\* upb_struct_set, upb_struct_unset and upb_struct_clear.
C5_GetReturnsLastSet ==
  \A i \in FieldIds(d) : \A v \in shadow[i] :
    upb_struct_get_value(s, d.fields[i], TypeOf(i)) = v

\* Every field of the block holds a value a setter stored, the last of
\* them with non-zero high bytes, and the flags were cleared after that.
C5_Witness ==
  /\ last.op = "clear"
  /\ \A i \in touched : shadow[i] # {}
  /\ \E i \in touched : shadow[i] = {<<513, 1027, 1541, 65535>>}
  /\ \E j \in FieldIds(d) : FlagOf(pre, j)

\* C6: after upb_struct_clear, upb_struct_is_set is false for every field
\* of the definition.
C6_ClearUnsetsAll ==
  last.op = "clear" => \A i \in FieldIds(d) : ~FlagOf(s, i)

\* upb_struct_clear ran on an instance with every flag set.
C6_Witness ==
  /\ last.op = "clear"
  /\ \A i \in FieldIds(d) : FlagOf(pre, i)
  /\ \A i \in FieldIds(d) : ~FlagOf(s, i)

\* C7: upb_struct_set on f followed by upb_struct_unset on f leaves the
\* flag of every other field g as it was before the upb_struct_set, also
\* when f and g keep their flags in the same byte.
C7_SetUnsetKeepsOthers ==
  last.op = "unset" =>
    \A b \in snap : \A g \in FieldIds(d) \ {last.f} :
      FlagOf(s, g) <=> FlagOf(b, g)

\* Field 7 was clear, was set and unset again, while field 6 (same flag
\* byte) and field 8 (the next flag byte) were set.
C7_Witness ==
  /\ last.op = "unset" /\ last.f = 7
  /\ \E b \in snap : ~FlagOf(b, 7) /\ FlagOf(b, 6) /\ FlagOf(b, 8)
  /\ FlagOf(pre, 7) /\ ~FlagOf(s, 7) /\ FlagOf(s, 6) /\ FlagOf(s, 8)

(***************************************************************************)
(* Claims about the array accessors (under SpecArr).                       *)
(***************************************************************************)
\* C9: after set(arr, i, v) on an array record of length n, with i in
\* [0, n), get(arr, i) returns v and get(arr, j) is unchanged for every
\* other index j in [0, n).
C9_ArraySetGet ==
  last.op = "array_set" =>
    /\ \A v \in last.v : upb_array_get_value(arr, last.f, atype) = v
    /\ \A j \in (0 .. arr.len - 1) \ {last.f} :
         upb_array_get_value(arr, j, atype)
           = upb_array_get_value([arr EXCEPT !.data = pre], j, atype)

\* An int32 array of length 3 whose elements 0 and 2 hold 2147483647, and
\* set(arr, 1, -5) was the last call.
C9_Witness ==
  /\ atype = "int32" /\ arr.len = 3
  /\ last = [op |-> "array_set", f |-> 1, v |-> {-5}]
  /\ upb_array_get_value(arr, 0, atype) = 2147483647
  /\ upb_array_get_value(arr, 1, atype) = -5
  /\ upb_array_get_value(arr, 2, atype) = 2147483647

(***************************************************************************)
(* Claims about concurrent writers (under SpecConc).                       *)
(***************************************************************************)
FlagOp(buf, p) ==
  IF p.op = "set" THEN upb_struct_set(buf, d.fields[p.f])
  ELSE upb_struct_unset(buf, d.fields[p.f])

\* the memory after the two calls ran one after the other, from pre
Serial == FlagOp(FlagOp(pre, prog[1]), prog[2])
AllDone == \A w \in Writers : pc[w] = "done"
SharedByte ==
  d.fields[prog[1].f].isset_byte_offset = d.fields[prog[2].f].isset_byte_offset

\* C10: two writers that set or unset different fields of one instance by
\* non-atomic read-modify-writes end, in every interleaving, in the state
\* of a serial execution when the fields' flag bytes differ; when the
\* fields share a flag byte they end in that state or in one where the
\* update of one writer is lost.
C10_DisjointBytesSerial ==
  AllDone =>
    /\ FlagOp(FlagOp(pre, prog[2]), prog[1]) = Serial
    /\ ~SharedByte => s = Serial
    /\ SharedByte => s \in {Serial, FlagOp(pre, prog[1]), FlagOp(pre, prog[2])}

\* Both writers are done, their fields share a flag byte, and the update
\* of writer 1 is lost: the memory is as if only writer 2 had run.
C10_Witness ==
  /\ AllDone /\ SharedByte
  /\ s # Serial
  /\ s = FlagOp(pre, prog[2])
  /\ FlagOp(pre, prog[1]) # pre

\* Both writers are done, their fields' flag bytes differ, and both
\* updates changed the memory.
C10_DisjointWitness ==
  /\ AllDone /\ ~SharedByte
  /\ FlagOp(pre, prog[1]) # pre /\ FlagOp(pre, prog[2]) # pre
  /\ s = Serial

(***************************************************************************)
(* Claims about the memory the required-field check reads (under SpecReq). *)
(***************************************************************************)
\* the required bits fit in the flag bytes: ceil(nreq / 8) <= set_flags_bytes
RequiredBitsFit(def) ==
  (def.num_required_fields + 7) \div 8 <= def.set_flags_bytes

\* C11: upb_struct_all_required_fields_set reads only bytes at indices in
\* [0, set_flags_bytes), never a byte of value storage or past the flag
\* bytes, for every definition whose required bits fit in the flag bytes,
\* including num_required_fields = 0 with set_flags_bytes = 0.
C11_ReadsOnlyFlagBytes ==
  (last.op = "all_required" /\ RequiredBitsFit(d)) =>
    upb_struct_all_required_fields_set_reads(pre, d)
      \subseteq 0 .. d.set_flags_bytes - 1

\* The same for the definitions that have at least one required field:
\* there the check reads flag bytes only, also for the counts 8 and 16.
C11_ReadsOnlyFlagBytesSomeRequired ==
  (last.op = "all_required" /\ RequiredBitsFit(d)
     /\ d.num_required_fields > 0) =>
    upb_struct_all_required_fields_set_reads(pre, d)
      \subseteq 0 .. d.set_flags_bytes - 1

====
